---- MODULE Spec2Model ----
(***************************************************************************)
(* Model of the snapshot restoration service                               *)
(* (ethcore/src/snapshot/service.rs): Restoration, Service and the         *)
(* directory-level database swap.                                          *)
(***************************************************************************)
EXTENDS Integers, FiniteSets, Sequences, TLC

\* ------------------------------------------------------------------ bounds
\* number of chunk hashes that manifests name
NumIds == 2
\* number of file-system and database calls that fail in one run
MaxFaults == 2
\* the same, in a run of the two actors step by step
MaxConcFaults == 1

\* ------------------------------------------------------------ value spaces
ManifestIds == 1 .. NumIds
\* a hash that no manifest names
StrayIds == {0}
\* H256
Hashes == ManifestIds \cup StrayIds

\* ManifestData: the two hash lists (as sets, the way Restoration::new collects
\* them). A hash names a state chunk or a block chunk of a manifest, not both;
\* up to the names of the hashes, these are all manifests of at most NumIds chunks
Manifests == {[state_hashes |-> 1 .. i, block_hashes |-> (i + 1) .. j] :
                i \in 0 .. NumIds, j \in 0 .. NumIds}

\* chunk payloads: decompresses and rebuilds; fails to decompress; fails in the rebuilder
Payloads == {"good", "corrupt", "invalid"}

\* enum RestorationStatus
Inactive == "Inactive"
Ongoing == "Ongoing"
Failed == "Failed"
RestorationStatus == {Inactive, Ongoing, Failed}

\* the three stores swapped by finalize_restoration, in its order
StoreNamesShort == <<"state", "blocks">>
StoreNames == <<"state", "blocks", "extras">>
\* the databases of the client (and of a restoration directory)
StoreSet == {"state", "blocks", "extras"}

\* ----------------------------------------------------------- the file system
\* a database directory: absent, or a store and who made it: "node" (the
\* node's store from before the service), "attempt" (created by the latest
\* Restoration::new) or "earlier" (created by a Restoration::new before that)
Absent == [exists |-> FALSE, by |-> "nobody"]
OldStore == [exists |-> TRUE, by |-> "node"]
Built == [exists |-> TRUE, by |-> "attempt"]
Earlier == [exists |-> TRUE, by |-> "earlier"]

\* a new Restoration is being created: what earlier ones created is no longer the latest
aged(stores) == [n \in DOMAIN stores |-> IF stores[n] = Built THEN Earlier ELSE stores[n]]

NoStores == [n \in StoreSet |-> Absent]

\* Service::snapshot_dir and Service::restoration_dir (the latter lies inside the former)
snapshot_dir == "snapshot"
restoration_dir_wrong == "snapshot"
restoration_dir == "snapshot/restoration"

\* fs::remove_dir_all(path) on an existing path, success case
remove_dir_all(f, path) ==
    IF path = snapshot_dir
    THEN [f EXCEPT !.rest = [exists |-> FALSE, stores |-> NoStores],
                   !.snapshot = [exists |-> FALSE, chunks |-> {}]]
    ELSE IF path = restoration_dir
    THEN [f EXCEPT !.rest = [exists |-> FALSE, stores |-> NoStores]]
    ELSE f

\* does the directory exist?
dir_exists(f, path) ==
    IF path = snapshot_dir THEN f.snapshot.exists
    ELSE IF path = restoration_dir THEN f.rest.exists
    ELSE FALSE

\* fs::create_dir_all(path), success case
create_dir_all(f, path) ==
    IF path = snapshot_dir
    THEN [f EXCEPT !.snapshot = [exists |-> TRUE, chunks |-> @.chunks]]
    ELSE IF path = restoration_dir
    THEN [f EXCEPT !.rest = [exists |-> TRUE, stores |-> @.stores],
                   !.snapshot = [exists |-> TRUE, chunks |-> @.chunks]]
    ELSE f

\* `let _ = fs::remove_dir_all(path)`: the outcomes of a removal whose result
\* is ignored (removed; or, on an error, left as it was), k counting the failure
remove_ignored(f, path) ==
    IF dir_exists(f, path)
    THEN {[fs |-> remove_dir_all(f, path), k |-> 0, how |-> "removed"],
          [fs |-> f, k |-> 1, how |-> "failed"]}
    ELSE {[fs |-> f, k |-> 0, how |-> "absent"]}

\* ------------------------------------------------------------- Restoration
\* a rebuilder counts how often each chunk was fed into it (2 stands for "more than once")
NotFed == [h \in Hashes |-> 0]
Bump(n) == IF n < 2 THEN n + 1 ELSE 2

\* Restoration::new with the two hash lists taken for one another
Restoration_new_swapped(data) ==
    [state_chunks_left |-> data.block_hashes,
     block_chunks_left |-> data.state_hashes,
     state |-> NotFed,
     blocks |-> [fed |-> NotFed, glued |-> 0]]

\* Restoration::new, success case
Restoration_new(data) ==
    [state_chunks_left |-> data.state_hashes,
     block_chunks_left |-> data.block_hashes,
     state |-> NotFed,
     blocks |-> [fed |-> NotFed, glued |-> 0]]

\* Restoration::feed_state feeding the rebuilder whatever remove(&hash) returned
feed_state_always(r, hash, payload) ==
    LET removed == [r EXCEPT !.state_chunks_left = @ \ {hash}]
        fed == [removed EXCEPT !.state[hash] = Bump(@)]
        was == hash \in r.state_chunks_left
    IN  IF payload = "corrupt" THEN [res |-> "err", rest |-> removed, removed |-> was]
        ELSE IF payload = "invalid" THEN [res |-> "err", rest |-> fed, removed |-> was]
        ELSE [res |-> "ok", rest |-> fed, removed |-> was]

\* Restoration::feed_state: the result, the Restoration it leaves, and what
\* state_chunks_left.remove(&hash) returned
feed_state(r, hash, payload) ==
    IF hash \in r.state_chunks_left
    THEN LET removed == [r EXCEPT !.state_chunks_left = @ \ {hash}]
             fed == [removed EXCEPT !.state[hash] = Bump(@)]
         IN  IF payload = "corrupt" THEN [res |-> "err", rest |-> removed, removed |-> TRUE]
             ELSE IF payload = "invalid" THEN [res |-> "err", rest |-> fed, removed |-> TRUE]
             ELSE [res |-> "ok", rest |-> fed, removed |-> TRUE]
    ELSE [res |-> "ok", rest |-> r, removed |-> FALSE]

\* Restoration::feed_blocks gluing after every chunk it fed
feed_blocks_glue_each(r, hash, payload) ==
    IF hash \in r.block_chunks_left
    THEN LET removed == [r EXCEPT !.block_chunks_left = @ \ {hash}]
             fed == [removed EXCEPT !.blocks.fed[hash] = Bump(@)]
             glued == [fed EXCEPT !.blocks.glued = Bump(@)]
         IN  IF payload = "corrupt" THEN [res |-> "err", rest |-> removed, removed |-> TRUE]
             ELSE IF payload = "invalid" THEN [res |-> "err", rest |-> fed, removed |-> TRUE]
             ELSE [res |-> "ok", rest |-> glued, removed |-> TRUE]
    ELSE [res |-> "ok", rest |-> r, removed |-> FALSE]

\* Restoration::feed_blocks: the same, with the glue step once no block chunk is left
feed_blocks(r, hash, payload) ==
    IF hash \in r.block_chunks_left
    THEN LET removed == [r EXCEPT !.block_chunks_left = @ \ {hash}]
             fed == [removed EXCEPT !.blocks.fed[hash] = Bump(@)]
             glued == IF fed.block_chunks_left = {}
                      THEN [fed EXCEPT !.blocks.glued = Bump(@)]
                      ELSE fed
         IN  IF payload = "corrupt" THEN [res |-> "err", rest |-> removed, removed |-> TRUE]
             ELSE IF payload = "invalid" THEN [res |-> "err", rest |-> fed, removed |-> TRUE]
             ELSE [res |-> "ok", rest |-> glued, removed |-> TRUE]
    ELSE [res |-> "ok", rest |-> r, removed |-> FALSE]

\* is_done looking at the state chunks only
is_done_state_only(r) == r.state_chunks_left = {}

\* Restoration::is_done
is_done(r) == r.block_chunks_left = {} /\ r.state_chunks_left = {}

\* the outstanding set of the kind a feed addresses
ChunksLeft(r, is_state) == IF is_state THEN r.state_chunks_left ELSE r.block_chunks_left

\* ------------------------------------------------------------------ Service
\* a failed rename into the live location that leaves the backup where it is
restore_backup_skipped(g, name) == g

\* replace_client_db, `fs::rename(&backup_db, client_db)`: the backup is
\* moved back to the live location
restore_backup(g, name) ==
    [g EXCEPT !.live[name] = g.backup[name], !.backup[name] = Absent]

\* Service::replace_client_db(name): the possible outcomes, each with the
\* step whose error is returned ("none" for Ok) and the number k of calls
\* that failed on their own account (not for a missing or occupied path)
replace_client_db(f, name) ==
    LET Out(e, g, n) == [err |-> e, fs |-> g, k |-> n]
        \* fs::rename(&backup_db, client_db) after a failed step 3
        Restore(g, n) ==
            {Out("to_live", restore_backup(g, name), n),
             Out("restore", g, n + 1)}
        \* fs::rename(&our_db, &client_db) and what follows it
        ToLive(g, existed, n) ==
            LET our == g.rest.stores[name]
                moved == [g EXCEPT !.live[name] = our, !.rest.stores[name] = Absent]
                ok == IF existed
                      THEN {Out("none", [moved EXCEPT !.backup[name] = Absent], n),
                            Out("rm_backup", moved, n + 1)}
                      ELSE {Out("none", moved, n)}
                failed(m) == IF existed THEN Restore(g, m) ELSE {Out("to_live", g, m)}
            IN  IF our.exists THEN ok \cup failed(n + 1) ELSE failed(n)
        \* fs::rename(&client_db, &backup_db)
        ToBackup(g, n) ==
            IF ~g.live[name].exists THEN ToLive(g, FALSE, n)
            ELSE IF g.backup[name].exists THEN {Out("to_backup", g, n)}
            ELSE {Out("to_backup", g, n + 1)}
                 \cup ToLive([g EXCEPT !.backup[name] = g.live[name], !.live[name] = Absent],
                             TRUE, n)
    IN  \* let _ = fs::remove_dir_all(&backup_db)
        IF f.backup[name].exists
        THEN ToBackup([f EXCEPT !.backup[name] = Absent], 0) \cup ToBackup(f, 1)
        ELSE ToBackup(f, 0)

\* the three swaps of finalize_restoration from store i on, stopping at the
\* first error: the results of the swaps made and the file system left
RECURSIVE swap_from(_, _)
swap_from(f, i) ==
    IF i > Len(StoreNames) THEN {[swaps |-> <<>>, fs |-> f, k |-> 0]}
    ELSE UNION {
           IF o.err = "none"
           THEN {[swaps |-> <<o.err>> \o t.swaps, fs |-> t.fs, k |-> o.k + t.k]
                 : t \in swap_from(o.fs, i + 1)}
           ELSE {[swaps |-> <<o.err>>, fs |-> o.fs, k |-> o.k]}
           : o \in replace_client_db(f, StoreNames[i])}

\* did every store swap return Ok?
all_swapped(swaps) ==
    /\ Len(swaps) = Len(StoreNames)
    /\ \A i \in 1 .. Len(swaps) : swaps[i] = "none"

\* Service::finalize_restoration: the Restoration is dropped, then the outcomes
finalize_restoration(st, f) ==
    UNION {
      IF all_swapped(t.swaps)
      THEN {[ok |-> TRUE, status |-> Inactive, restoration |-> {}, fs |-> g.fs,
             swaps |-> t.swaps, cleanup |-> g.how, k |-> t.k + g.k]
            : g \in remove_ignored(t.fs, restoration_dir)}
      ELSE {[ok |-> FALSE, status |-> st, restoration |-> {}, fs |-> t.fs,
             swaps |-> t.swaps, cleanup |-> "none", k |-> t.k]}
      : t \in swap_from(f, 1)}

\* Service::feed_chunk returning an error, instead of Ok, when it has nothing to feed
feed_chunk_strict(st, rest, f, hash, payload, is_state) ==
    LET quiet == [res |-> "err", status |-> st, restoration |-> rest, fs |-> f,
                  seen |-> st, call |-> {}, finalized |-> FALSE, swaps |-> <<>>,
                  cleanup |-> "none", k |-> 0]
    IN  IF st \in {Inactive, Failed} THEN {quiet}
        ELSE IF rest = {} THEN {quiet}
        ELSE LET r == CHOOSE x \in rest : TRUE
                 o == IF is_state THEN feed_state(r, hash, payload)
                                  ELSE feed_blocks(r, hash, payload)
                 fed == [quiet EXCEPT !.res = o.res, !.restoration = {o.rest},
                                      !.call = {[hash |-> hash, is_state |-> is_state,
                                                 removed |-> o.removed, res |-> o.res,
                                                 left |-> o.rest]}]
             IN  IF o.res = "ok" /\ is_done(o.rest)
                 THEN {[fed EXCEPT !.res = IF x.ok THEN "ok" ELSE "err",
                                   !.status = x.status, !.restoration = x.restoration,
                                   !.fs = x.fs, !.finalized = TRUE, !.swaps = x.swaps,
                                   !.cleanup = x.cleanup, !.k = x.k]
                       : x \in finalize_restoration(st, f)}
                 ELSE {fed}

\* Service::feed_chunk: the outcomes, with the locals of the call: the status
\* it saw, the call of the Restoration's feed it made (none, or its arguments,
\* its result and the Restoration it left), and the swaps of a finalize
feed_chunk(st, rest, f, hash, payload, is_state) ==
    LET quiet == [res |-> "ok", status |-> st, restoration |-> rest, fs |-> f,
                  seen |-> st, call |-> {}, finalized |-> FALSE, swaps |-> <<>>,
                  cleanup |-> "none", k |-> 0]
    IN  IF st \in {Inactive, Failed} THEN {quiet}
        ELSE IF rest = {} THEN {quiet}
        ELSE LET r == CHOOSE x \in rest : TRUE
                 o == IF is_state THEN feed_state(r, hash, payload)
                                  ELSE feed_blocks(r, hash, payload)
                 fed == [quiet EXCEPT !.res = o.res, !.restoration = {o.rest},
                                      !.call = {[hash |-> hash, is_state |-> is_state,
                                                 removed |-> o.removed, res |-> o.res,
                                                 left |-> o.rest]}]
             IN  IF o.res = "ok" /\ is_done(o.rest)
                 THEN {[fed EXCEPT !.res = IF x.ok THEN "ok" ELSE "err",
                                   !.status = x.status, !.restoration = x.restoration,
                                   !.fs = x.fs, !.finalized = TRUE, !.swaps = x.swaps,
                                   !.cleanup = x.cleanup, !.k = x.k]
                       : x \in finalize_restoration(st, f)}
                 ELSE {fed}

\* the Err arm setting the status of a finished restoration
on_error_inactive(o) ==
    {[o EXCEPT !.restoration = {}, !.status = Inactive, !.fs = g.fs,
               !.cleanup = g.how, !.k = @ + g.k]
     : g \in remove_ignored(o.fs, restoration_dir)}

\* the Err arm leaving the Restoration in place
on_error_keeps(o) ==
    {[o EXCEPT !.status = Failed, !.fs = g.fs, !.cleanup = g.how, !.k = @ + g.k]
     : g \in remove_ignored(o.fs, restoration_dir)}

\* the Err arm of feed_state_chunk and feed_block_chunk
on_error(o) ==
    {[o EXCEPT !.restoration = {}, !.status = Failed, !.fs = g.fs,
               !.cleanup = g.how, !.k = @ + g.k]
     : g \in remove_ignored(o.fs, restoration_dir)}

\* Service::feed_state_chunk
feed_state_chunk(st, rest, f, hash, payload) ==
    UNION {IF o.res = "ok" THEN {o} ELSE on_error(o)
           : o \in feed_chunk(st, rest, f, hash, payload, TRUE)}

\* Service::feed_block_chunk
feed_block_chunk(st, rest, f, hash, payload) ==
    UNION {IF o.res = "ok" THEN {o} ELSE on_error(o)
           : o \in feed_chunk(st, rest, f, hash, payload, FALSE)}

\* SnapshotService::manifest
manifest(rd) == {r.manifest : r \in rd}

\* LooseReader::chunk: the bytes of the chunk's file in the snapshot directory, if any
reader_chunk(f, hash) == {c.bytes : c \in {c \in f.snapshot.chunks : c.hash = hash}}

\* SnapshotService::chunk
chunk(rd, f, hash) == IF rd = {} THEN {} ELSE reader_chunk(f, hash)

\* begin_restore, "delete and restore the restoration dir": the outcomes of
\* fs::remove_dir_all(&rest_dir).and_then(|_| fs::create_dir_all(&rest_dir)),
\* a NotFound of the removal being let through (the directory is then not created)
begin_teardown(f) ==
    LET rest_dir == restoration_dir
    IN  IF ~dir_exists(f, rest_dir)
        THEN {[ok |-> TRUE, why |-> "none", fs |-> f, k |-> 0]}
        ELSE {[ok |-> FALSE, why |-> "remove", fs |-> f, k |-> 1],
              [ok |-> FALSE, why |-> "create", fs |-> remove_dir_all(f, rest_dir), k |-> 1],
              [ok |-> TRUE, why |-> "none",
               fs |-> create_dir_all(remove_dir_all(f, rest_dir), rest_dir), k |-> 0]}

\* begin_restore, "make new restoration": Restoration::new fails (leaving, in
\* this model, the directory as it found it) or succeeds
begin_new(g, data) ==
    LET h == [g EXCEPT !.live = aged(@), !.backup = aged(@),
                       !.rest = [exists |-> TRUE, stores |-> aged(@.stores)]]
    IN  {[ok |-> FALSE, why |-> "new", restoration |-> {}, fs |-> g, k |-> 1],
         [ok |-> TRUE, why |-> "none", restoration |-> {Restoration_new(data)},
          fs |-> [h EXCEPT !.rest.stores = [n \in StoreSet |-> Built]], k |-> 0]}

\* SnapshotService::begin_restore: the outcomes. The Restoration is torn down
\* first; the status is set only when everything succeeded
begin_restore(st, f, data) ==
    UNION {
      IF ~t.ok
      THEN {[ret |-> FALSE, why |-> t.why, status |-> st, restoration |-> {},
             fs |-> t.fs, k |-> t.k]}
      ELSE {[ret |-> n.ok, why |-> n.why,
             status |-> IF n.ok THEN Ongoing ELSE st,
             restoration |-> n.restoration, fs |-> n.fs, k |-> t.k + n.k]
            : n \in begin_new(t.fs, data)}
      : t \in begin_teardown(f)}

\* Service::status held as `match *self.status.lock()` would hold it: the
\* guard outlives the read
read_status_holding(st, who) == [seen |-> st, slock |-> who]

\* Service::status: the status read under its lock, and the lock's holder
\* when the call returns (the guard is a temporary of the call)
read_status(st, who) == [seen |-> st, slock |-> "free"]

\* ------------------------------------------------------------------- state
VARIABLES
    status,       \* Service.status
    restoration,  \* Service.restoration: {} is None, {r} is Some(r)
    fs,           \* the directories the service works on
    reader,       \* Service.reader: {} is None, {r} is Some(r)
    faults,       \* number of file-system and database calls that have failed so far
    nfinal,       \* calls of finalize_restoration since the last successful begin_restore
    last,         \* the last operation: its arguments, locals and result
    run           \* the two actors: where each is in its call, who holds the locks

vars == <<status, restoration, fs, reader, faults, nfinal, last, run>>

\* the snapshot a previous run completed, which the Reader serves
ServedManifest == [state_hashes |-> ManifestIds \ {NumIds}, block_hashes |-> {NumIds}]
ServedChunks == {[hash |-> h, bytes |-> h + 1000] : h \in ManifestIds}

\* op: the operation. ret: what it returned (for a feed: whether feed_chunk
\* returned Ok). seen: the status at its start. began, why: the manifest a
\* successful begin_restore began with, the step a failed one failed at.
\* regained: whether the Restoration it tore down had consumed a chunk that
\* the new manifest names. call: the call of Restoration::feed_state or
\* feed_blocks made. finalized, swaps, cleanup:
\* whether finalize_restoration ran, the results of its swaps, and how the
\* removal of the restoration directory (by finalize or by the Err arm) went
NoLast == [op |-> "new", ret |-> TRUE, seen |-> Inactive, began |-> {}, why |-> "none",
           regained |-> FALSE, call |-> {}, finalized |-> FALSE, swaps |-> <<>>,
           cleanup |-> "none"]

\* net: the network actor (begin_restore, status()); proc: the processing
\* actor (feed_state_chunk, feed_block_chunk). Each is at "idle" or at the
\* lock its call is about to take. rlock, slock: the holders of
\* Service.restoration and Service.status. fresh: a begin_restore has
\* succeeded while the processing actor was in the Err arm of a feed, and
\* no call has started since
NoRun == [net |-> "idle", proc |-> "idle", rlock |-> "free", slock |-> "free",
          fresh |-> FALSE]

\* Service::new: no restoration, Inactive, the snapshot directory created and
\* the restoration directory removed; either a node that has databases and a
\* completed snapshot (which the Reader serves), or a fresh node with neither
Init ==
    /\ status = Inactive
    /\ restoration = {}
    /\ \E served \in BOOLEAN :
        /\ reader = IF served THEN {[manifest |-> ServedManifest]} ELSE {}
        /\ fs = [snapshot |-> [exists |-> TRUE,
                               chunks |-> IF served THEN ServedChunks ELSE {}],
                 rest |-> [exists |-> FALSE, stores |-> NoStores],
                 live |-> [n \in StoreSet |-> IF served THEN OldStore ELSE Absent],
                 backup |-> NoStores]
    /\ faults = 0
    /\ nfinal = 0
    /\ last = NoLast
    /\ run = NoRun

\* ------------------------------------------------------------------ actions
\* how an operation's outcome o changes the service
Becomes(o) ==
    /\ faults + o.k <= MaxFaults
    /\ faults' = faults + o.k
    /\ status' = o.status
    /\ restoration' = o.restoration
    /\ fs' = o.fs

\* has the Restoration (if any) consumed a chunk that the manifest names?
Consumed(rest, data) ==
    \E r \in rest : \E h \in data.state_hashes \cup data.block_hashes :
        r.state[h] > 0 \/ r.blocks.fed[h] > 0

\* SnapshotService::begin_restore(manifest)
BeginRestore ==
    \E data \in Manifests :
    \E o \in begin_restore(status, fs, data) :
        /\ Becomes(o)
        /\ nfinal' = IF o.ret THEN 0 ELSE nfinal
        /\ last' = [NoLast EXCEPT !.op = "begin_restore", !.ret = o.ret, !.seen = status,
                                  !.began = IF o.ret THEN {data} ELSE {},
                                  !.why = o.why,
                                  !.regained = o.ret /\ Consumed(restoration, data)]
        /\ UNCHANGED <<reader, run>>

\* what a feed leaves behind
Fed(o) ==
    /\ Becomes(o)
    /\ nfinal' = IF o.finalized THEN Bump(nfinal) ELSE nfinal
    /\ last' = [NoLast EXCEPT !.op = "feed", !.ret = (o.res = "ok"), !.seen = o.seen,
                              !.call = o.call, !.finalized = o.finalized,
                              !.swaps = o.swaps, !.cleanup = o.cleanup]
    /\ UNCHANGED <<reader, run>>

\* Service::feed_state_chunk(hash, chunk)
FeedStateChunk ==
    \E hash \in Hashes :
    \E o \in UNION {feed_state_chunk(status, restoration, fs, hash, payload)
                    : payload \in Payloads} :
        Fed(o)

\* Service::feed_block_chunk(hash, chunk)
FeedBlockChunk ==
    \E hash \in Hashes :
    \E o \in UNION {feed_block_chunk(status, restoration, fs, hash, payload)
                    : payload \in Payloads} :
        Fed(o)

\* SnapshotService::manifest()
Manifest ==
    /\ last' = [NoLast EXCEPT !.op = "manifest"]
    /\ UNCHANGED <<status, restoration, fs, reader, faults, nfinal, run>>

\* SnapshotService::chunk(hash)
Chunk ==
        /\ last' = [NoLast EXCEPT !.op = "chunk"]
        /\ UNCHANGED <<status, restoration, fs, reader, faults, nfinal, run>>

Next ==
    \/ BeginRestore
    \/ FeedStateChunk
    \/ FeedBlockChunk
    \/ Manifest
    \/ Chunk

Spec == Init /\ [][Next]_vars

\* -------------------------------------------------- the two actors, step by step
\* A step is what a call does from taking one lock to waiting for the next.
\* The arguments of a call are drawn where the call first uses them.
\* the Err arm of feed_state_chunk and feed_block_chunk
HandlerPcs == {"h_lock", "h_slock", "h_clean"}

\* the manifests the network actor begins with: at most one chunk of a kind
ConcManifests ==
    {m \in Manifests : Cardinality(m.state_hashes) <= 1 /\ Cardinality(m.block_hashes) <= 1}

\* a step that leaves everything but the locks and the actors' positions alone
Quiet == UNCHANGED <<status, restoration, fs, faults, reader, nfinal, last>>

\* a step's effect on the file system, within the budget of failures
Touches(g, k) ==
    /\ faults + k <= MaxConcFaults
    /\ faults' = faults + k
    /\ fs' = g

\* what no step of the two actors changes
Kept == UNCHANGED <<reader, nfinal, last>>

\* the network actor calls begin_restore: it is about to lock the Restoration
NetBegin ==
    /\ run.net = "idle"
    /\ run' = [run EXCEPT !.net = "b_lock", !.fresh = FALSE]
    /\ Quiet

\* begin_restore: `self.restoration.lock()`, `*res = None`, and the removal
\* and creation of the restoration directory; on an error it returns false
NetTeardown ==
    /\ Kept
    /\ run.net = "b_lock"
    /\ run.rlock = "free"
    /\ \E t \in begin_teardown(fs) :
        /\ Touches(t.fs, t.k)
        /\ restoration' = {}
        /\ run' = IF t.ok THEN [run EXCEPT !.net = "b_new", !.rlock = "net"]
                          ELSE [run EXCEPT !.net = "idle"]
    /\ UNCHANGED status

\* begin_restore: `*res = match Restoration::new(..)`; on an error it returns false
NetNew ==
    /\ Kept
    /\ run.net = "b_new"
    /\ \E data \in ConcManifests : \E n \in begin_new(fs, data) :
        /\ Touches(n.fs, n.k)
        /\ restoration' = n.restoration
        /\ run' = IF n.ok THEN [run EXCEPT !.net = "b_slock"]
                          ELSE [run EXCEPT !.net = "idle", !.rlock = "free"]
    /\ UNCHANGED status

\* begin_restore: `*self.status.lock() = RestorationStatus::Ongoing; true`
NetOngoing ==
    /\ Kept
    /\ run.net = "b_slock"
    /\ run.slock = "free"
    /\ status' = Ongoing
    /\ run' = [run EXCEPT !.net = "idle", !.rlock = "free",
                           !.fresh = run.proc \in HandlerPcs]
    /\ UNCHANGED <<restoration, fs, faults>>

\* the network actor calls status(): it is about to lock the status
NetStatus ==
    /\ run.net = "idle"
    /\ run' = [run EXCEPT !.net = "s_lock"]
    /\ Quiet

\* Service::status
NetStatusRead ==
    /\ run.net = "s_lock"
    /\ run.slock = "free"
    /\ run' = [run EXCEPT !.net = "idle", !.slock = read_status(status, "net").slock]
    /\ Quiet

\* the processing actor calls feed_state_chunk or feed_block_chunk, whose
\* feed_chunk is about to read the status
ProcFeed ==
    /\ run.proc = "idle"
    /\ run' = [run EXCEPT !.proc = "f_slock", !.fresh = FALSE]
    /\ Quiet

\* the lock holders when feed_chunk returns: the Restoration lock is released,
\* and so is a status guard of the `match`
Returned(r) == [r EXCEPT !.rlock = "free",
                         !.slock = IF @ = "proc" THEN "free" ELSE @]

\* feed_chunk: `match self.status()`: Ok(()) unless Ongoing
ProcStatus ==
    /\ run.proc = "f_slock"
    /\ run.slock = "free"
    /\ LET o == read_status(status, "proc")
       IN  run' = IF o.seen = Ongoing
                  THEN [run EXCEPT !.proc = "f_lock", !.slock = o.slock]
                  ELSE [run EXCEPT !.proc = "idle"]
    /\ Quiet

\* feed_chunk: `self.restoration.lock()`, the feed of the Restoration and, on
\* Ok(true), finalize_restoration up to its three swaps
ProcFeedChunk ==
    /\ Kept
    /\ run.proc = "f_lock"
    /\ run.rlock = "free"
    /\ UNCHANGED status
    /\ IF restoration = {}
       THEN /\ run' = Returned([run EXCEPT !.proc = "idle"])
            /\ UNCHANGED <<restoration, fs, faults>>
       ELSE \E hash \in Hashes, payload \in Payloads, is_state \in BOOLEAN :
            \E r \in restoration :
            LET o == IF is_state THEN feed_state(r, hash, payload)
                                 ELSE feed_blocks(r, hash, payload)
            IN  IF o.res = "err"
                THEN /\ restoration' = {o.rest}
                     /\ run' = Returned([run EXCEPT !.proc = "h_lock"])
                     /\ UNCHANGED <<fs, faults>>
                ELSE IF ~is_done(o.rest)
                THEN /\ restoration' = {o.rest}
                     /\ run' = Returned([run EXCEPT !.proc = "idle"])
                     /\ UNCHANGED <<fs, faults>>
                ELSE \E t \in swap_from(fs, 1) :
                     /\ Touches(t.fs, t.k)
                     /\ restoration' = {}
                     /\ run' = IF all_swapped(t.swaps)
                               THEN [run EXCEPT !.proc = "z_slock", !.rlock = "proc"]
                               ELSE Returned([run EXCEPT !.proc = "h_lock"])

\* finalize_restoration: `*self.status.lock() = RestorationStatus::Inactive`,
\* the removal of the restoration directory, and the return of feed_chunk
ProcInactive ==
    /\ Kept
    /\ run.proc = "z_slock"
    /\ run.slock = "free"
    /\ status' = Inactive
    /\ \E g \in remove_ignored(fs, restoration_dir) : Touches(g.fs, g.k)
    /\ run' = Returned([run EXCEPT !.proc = "idle"])
    /\ UNCHANGED restoration

\* the Err arm: `*self.restoration.lock() = None`
ProcDrop ==
    /\ Kept
    /\ run.proc = "h_lock"
    /\ run.rlock = "free"
    /\ restoration' = {}
    /\ run' = [run EXCEPT !.proc = "h_slock"]
    /\ UNCHANGED <<status, fs, faults>>

\* the Err arm: `*self.status.lock() = RestorationStatus::Failed`
ProcFailed ==
    /\ Kept
    /\ run.proc = "h_slock"
    /\ run.slock = "free"
    /\ status' = Failed
    /\ run' = [run EXCEPT !.proc = "h_clean"]
    /\ UNCHANGED <<restoration, fs, faults>>

\* the Err arm: `let _ = fs::remove_dir_all(self.restoration_dir())`
ProcClean ==
    /\ Kept
    /\ run.proc = "h_clean"
    /\ \E g \in remove_ignored(fs, restoration_dir) : Touches(g.fs, g.k)
    /\ run' = [run EXCEPT !.proc = "idle"]
    /\ UNCHANGED <<status, restoration>>

\* the steps of a call that has started
NetStep == NetTeardown \/ NetNew \/ NetOngoing \/ NetStatusRead
ProcStep == ProcStatus \/ ProcFeedChunk \/ ProcInactive \/ ProcDrop \/ ProcFailed \/ ProcClean

ConcNext ==
    \/ NetBegin
    \/ NetTeardown
    \/ NetNew
    \/ NetOngoing
    \/ NetStatus
    \/ NetStatusRead
    \/ ProcFeed
    \/ ProcStatus
    \/ ProcFeedChunk
    \/ ProcInactive
    \/ ProcDrop
    \/ ProcFailed
    \/ ProcClean

\* the locks are eventually fair, and a running call is scheduled
ConcSpec == Init /\ [][ConcNext]_vars /\ SF_vars(NetStep) /\ SF_vars(ProcStep)

\* ------------------------------------------------------------------- claims
Swapped3 == <<"none", "none", "none">>

\* C1: when feed_state or feed_blocks fails for a hash that was outstanding,
\* the hash is still in the outstanding set of its kind when the call returns.
C1_FailedFeedKeepsId ==
    \A c \in last.call :
        (c.res = "err" /\ c.removed) => c.hash \in ChunksLeft(c.left, c.is_state)

\* no rebuilder, of the Restoration or of the one the last feed left, was fed a
\* chunk more than once
C2_FedAtMostOnce ==
    \A r \in restoration \cup {c.left : c \in last.call} :
        \A h \in Hashes : r.state[h] <= 1 /\ r.blocks.fed[h] <= 1

\* C2: a feed_state or feed_blocks call for a hash that is not in the
\* outstanding set of its kind returns Ok and leaves the Restoration (both
\* outstanding sets and both rebuilders) as it was; and no chunk is fed into a
\* rebuilder more than once in an attempt.
C2_NotOutstandingIsNoop ==
    /\ [][\A c \in last'.call :
            c.hash \notin UNION {ChunksLeft(r, c.is_state) : r \in restoration}
            => (c.res = "ok" /\ ~c.removed /\ {c.left} = restoration)]_vars
    /\ []C2_FedAtMostOnce
C2_Witness ==
    \E c \in last.call :
        /\ ~c.removed
        /\ c.res = "ok"
        /\ (IF c.is_state THEN c.left.state[c.hash] ELSE c.left.blocks.fed[c.hash]) = 1

\* C3: in an attempt finalize_restoration is invoked at most once, only by a
\* feed that leaves both outstanding sets empty, and an attempt whose chunks
\* have all been consumed has been finalized (exactly once).
C3_ExactlyOneFinalize ==
    /\ nfinal <= 1
    /\ last.finalized => (last.call # {} /\ \A c \in last.call : is_done(c.left))
    /\ \A r \in restoration : is_done(r) => nfinal = 1

\* C4: the status changes only to Ongoing by a successful begin_restore
\* (which always sets it), from Ongoing to Inactive by a finalize whose three
\* swaps succeeded, and from Ongoing to Failed by a feed that returned an error.
C4_StatusMachine ==
    [][/\ (last'.op = "begin_restore" /\ last'.ret) => status' = Ongoing
       /\ status' # status =>
            \/ last'.op = "begin_restore" /\ last'.ret /\ status' = Ongoing
            \/ /\ status = Ongoing /\ status' = Inactive
               /\ last'.op = "feed" /\ last'.ret
               /\ last'.finalized /\ last'.swaps = Swapped3
            \/ /\ status = Ongoing /\ status' = Failed
               /\ last'.op = "feed" /\ ~last'.ret]_vars
C4_Witness ==
    last.op = "begin_restore" /\ last.ret /\ last.seen = Failed /\ status = Ongoing

\* C5: after a successful begin_restore issued while Ongoing, the outstanding
\* sets are exactly the hash sets of the new manifest, no chunk counts as fed,
\* and the status is Ongoing.
C5_PreemptDiscardsProgress ==
    (last.op = "begin_restore" /\ last.ret /\ last.seen = Ongoing) =>
        /\ status = Ongoing
        /\ restoration # {}
        /\ \A r \in restoration, m \in last.began :
            /\ r.state_chunks_left = m.state_hashes
            /\ r.block_chunks_left = m.block_hashes
            /\ \A h \in Hashes : r.state[h] = 0 /\ r.blocks.fed[h] = 0
C5_Witness ==
    /\ last.op = "begin_restore" /\ last.ret /\ last.seen = Ongoing /\ last.regained
    /\ \E r \in restoration : r.state_chunks_left # {} /\ r.block_chunks_left # {}

\* C6: a begin_restore that fails because the restoration directory cannot
\* be removed leaves the status and the Restoration as they were.
C6_FailedRemoveChangesNothing ==
    [][(last'.op = "begin_restore" /\ last'.why = "remove")
       => (status' = status /\ restoration' = restoration)]_vars

\* C7 (as stated): after a feed that ran with status Ongoing and whose feed or
\* finalize returned an error, the Restoration is absent, the restoration
\* directory is deleted and the status is Failed.
C7_ErrorTearsDown ==
    (last.op = "feed" /\ last.seen = Ongoing /\ ~last.ret) =>
        restoration = {} /\ ~fs.rest.exists /\ status = Failed

\* C7 (amended): ... the Restoration is absent and the status is Failed; the
\* restoration directory is deleted unless its removal failed.
C7_ErrorTearsDownUnlessRemovalFails ==
    (last.op = "feed" /\ last.seen = Ongoing /\ ~last.ret) =>
        /\ restoration = {}
        /\ status = Failed
        /\ last.cleanup # "failed" => ~fs.rest.exists
C7_Witness ==
    /\ last.op = "feed" /\ last.seen = Ongoing /\ ~last.ret
    /\ last.finalized /\ last.cleanup = "removed"

\* C8: with status Inactive or Failed a feed changes neither the status, nor
\* the Restoration, nor any directory, and calls no feed of a Restoration.
C8_FeedIsNoopUnlessOngoing ==
    [][(last'.op = "feed" /\ status \in {Inactive, Failed})
       => (status' = status /\ restoration' = restoration /\ fs' = fs
           /\ last'.call = {} /\ ~last'.finalized)]_vars
C8_Witness ==
    last.op = "feed" /\ last.seen = Failed /\ status = Failed /\ fs.rest.exists

\* manifest() and chunk(hash) answer what they answered at creation
C9_Answers ==
    /\ manifest(reader) = (IF reader = {} THEN {} ELSE {ServedManifest})
    /\ \A h \in Hashes :
        chunk(reader, fs, h) =
            (IF reader = {} THEN {} ELSE {c.bytes : c \in {c \in ServedChunks : c.hash = h}})

C10_Finalize ==
    last.finalized =>
        /\ status = Inactive <=> last.swaps = Swapped3
        /\ last.swaps = Swapped3 =>
            /\ restoration = {}
            /\ \A n \in StoreSet : fs.live[n] = Built
            /\ ~fs.rest.exists

\* C10 (amended): ... and the restoration directory is removed unless its
\* removal failed.
C10_FinalizeUnlessRemovalFails ==
    last.finalized =>
        /\ status = Inactive <=> last.swaps = Swapped3
        /\ last.swaps = Swapped3 =>
            /\ restoration = {}
            /\ \A n \in StoreSet : fs.live[n] = Built
            /\ last.cleanup # "failed" => ~fs.rest.exists
C10_Witness ==
    /\ last.finalized /\ status = Inactive /\ last.cleanup = "removed"
    /\ last.seen = Ongoing /\ nfinal = 1

\* C11: when the swap of blocks fails after the swap of state succeeded, the
\* live state store is the rebuilt one, the live blocks store holds what it
\* held before the finalize, the live extras store is untouched and the status
\* is Failed.
C11_SecondSwapFails ==
    [][(/\ last'.finalized
        /\ Len(last'.swaps) = 2
        /\ last'.swaps[1] = "none"
        /\ last'.swaps[2] # "none")
       => /\ fs'.live["state"] = Built
          /\ fs'.live["blocks"] = fs.live["blocks"]
          /\ fs'.live["extras"] = fs.live["extras"]
          /\ status' = Failed]_vars

\* the store whose swap was the last one a finalize made
LastSwapped(swaps) == StoreNames[Len(swaps)]

\* C12 (as stated): when the rename into the live location (step 3) fails, the
\* live location of that store holds what it held before the swap and the
\* error returned is that of step 3.
C12_FailedRenameRollsBack ==
    [][(/\ last'.finalized
        /\ last'.swaps # <<>>
        /\ last'.swaps[Len(last'.swaps)] \in {"to_live", "restore"})
       => /\ fs'.live[LastSwapped(last'.swaps)] = fs.live[LastSwapped(last'.swaps)]
          /\ last'.swaps[Len(last'.swaps)] = "to_live"]_vars

\* C12 (amended): when step 3 fails the backup is renamed back before the
\* error is returned: if that rename succeeds (or no live store existed) the
\* live location holds what it held before the swap and the error is that of
\* step 3; if that rename fails too, its error is the one returned, the live
\* location is empty and the previous live store is at the backup location.
C12_FailedRenameRollsBackIfItCan ==
    [][(last'.finalized /\ last'.swaps # <<>>)
       => LET n == LastSwapped(last'.swaps)
              e == last'.swaps[Len(last'.swaps)]
          IN  /\ e = "to_live" => fs'.live[n] = fs.live[n]
              /\ e = "restore" => /\ fs.live[n].exists
                                  /\ fs'.live[n] = Absent
                                  /\ fs'.backup[n] = fs.live[n]]_vars
C12_Witness ==
    /\ last.finalized
    /\ last.swaps = <<"none", "to_live">>
    /\ fs.live["blocks"] = OldStore
    /\ fs.backup["blocks"] = Absent

\* C13: a backup deletion that fails after the rename into the live location
\* does not fail the swap: a finalize in which no other step failed swaps all
\* three stores and leaves the status Inactive.
C13_BackupDeletionIsCleanup ==
    (/\ last.finalized
     /\ \A i \in 1 .. Len(last.swaps) : last.swaps[i] \in {"none", "rm_backup"})
    => (Len(last.swaps) = 3 /\ status = Inactive)

C14_NoSwapDuringAttempt ==
    \A r \in restoration : \A n \in StoreSet : fs.live[n] # Built

C16_GluedOnceWhenEmpty ==
    \A r \in restoration \cup {c.left : c \in last.call} :
        /\ r.blocks.glued <= 1
        /\ r.blocks.glued = 1 => r.block_chunks_left = {}

\* C16: the glue step runs at most once in an attempt, and only in a
\* feed_blocks call that returns Ok for a hash it found outstanding and that
\* leaves no block chunk outstanding (so not after a failed feed, and before
\* the finalize that the same feed may go on to run).
C16_GlueOnceAtTheEnd ==
    /\ []C16_GluedOnceWhenEmpty
    /\ [][\A c \in last'.call : \A r \in restoration :
            c.left.blocks.glued # r.blocks.glued
            => /\ ~c.is_state /\ c.res = "ok" /\ c.removed
               /\ c.hash \in r.block_chunks_left
               /\ c.left.block_chunks_left = {}
               /\ r.blocks.glued = 0]_vars
C16_Witness ==
    \E c \in last.call :
        /\ ~c.is_state /\ c.removed /\ c.res = "ok"
        /\ c.left.blocks.glued = 1
        /\ c.left.state_chunks_left # {}
        /\ c.left.blocks.fed[c.hash] = 1

\* C18: the service never stays Ongoing with a Restoration whose chunks have
\* all been consumed: for every manifest, the empty one included, such an
\* attempt is finalized.
C18_DoneIsFinalized ==
    \A r \in restoration : ~(status = Ongoing /\ is_done(r))

\* C19: between operations, the status is Ongoing exactly if a Restoration is
\* present.
C19_OngoingIffRestoration ==
    status = Ongoing <=> restoration # {}

\* a directory or a store of the restoration directory is removed or moved away
Shrinks(old, new) ==
    \/ old.exists /\ ~new.exists
    \/ \E n \in StoreSet : old.stores[n].exists /\ ~new.stores[n].exists

\* C15: no removal or rename of the restoration directory, or of a store in
\* it, happens while a Restoration is alive: a step that makes one leaves no
\* Restoration (it dropped it first, or there was none).
C15_HandlesReleasedFirst ==
    [][Shrinks(fs.rest, fs'.rest) => restoration' = {}]_vars

\* an actor waits for a lock that the other actor holds
NetBlocked ==
    \/ run.net = "b_lock" /\ run.rlock # "free"
    \/ run.net \in {"b_slock", "s_lock"} /\ run.slock # "free"
ProcBlocked ==
    \/ run.proc \in {"f_lock", "h_lock"} /\ run.rlock # "free"
    \/ run.proc \in {"f_slock", "z_slock", "h_slock"} /\ run.slock # "free"

\* nobody holds the status lock between steps, so none waits for the
\* Restoration lock holding it, and the two actors are never both blocked
C17_LocksOrdered ==
    /\ run.slock = "free"
    /\ run.rlock = "net" <=> run.net \in {"b_new", "b_slock"}
    /\ run.rlock = "proc" <=> run.proc = "z_slock"
    /\ ~(NetBlocked /\ ProcBlocked)

\* C17: the two locks never deadlock: the status lock is never held while
\* its holder waits for the Restoration lock, a status() call completes
\* (also while a feed or finalize holds the Restoration lock), and every call
\* that started returns.
C17_NoDeadlock ==
    /\ []C17_LocksOrdered
    /\ (run.net # "idle") ~> (run.net = "idle")
    /\ (run.proc # "idle") ~> (run.proc = "idle")
C17_Witness ==
    /\ run.net = "s_lock"
    /\ run.proc = "z_slock"
    /\ run.rlock = "proc"

\* C20: the Err arm of a feed only affects the attempt whose feed failed:
\* when a begin_restore has succeeded while the arm was running, the new
\* attempt's Restoration, restoration directory and status Ongoing are intact.
C20_NewAttemptIntact ==
    run.fresh => (restoration # {} /\ fs.rest.exists /\ status = Ongoing)

====
